---- MODULE Spec2Model ----
(***************************************************************************)
(* Model of oras-credentials-go store.go: the dynamicStore (a Resolver     *)
(* that picks one credentials backend per call and saves the detected      *)
(* native store to the config on the first successful Put) and the         *)
(* storeWithFallbacks (a chain of stores searched in order by Get).        *)
(***************************************************************************)
EXTENDS Integers, Sequences, FiniteSets, TLC

\* ---------------------------------------------------------------- bounds
NumProcs == 2            \* goroutines calling the dynamicStore concurrently
MaxCalls == 2            \* calls started on one dynamicStore in a run
NumLeaves == 3           \* stores a storeWithFallbacks is built from

Procs == 1..NumProcs
Addrs == {"a1", "a2"}    \* server addresses
Helpers == {"h1", "h2"}  \* credential helper suffixes
Creds == {"X"}           \* non-empty credentials the callers Put
Leaves == 1..NumLeaves   \* the stores given to NewStoreWithFallbacks
ChainCreds == {"X", "Y"} \* non-empty credentials held by those stores

EmptyCredential == "empty"      \* auth.EmptyCredential
CredValues == Creds \cup {EmptyCredential}

\* error values: the chain of messages, outermost first; nil is empty
Nil == <<>>
ErrBackend == <<"ErrBackend">>                  \* a failure of a store's own I/O
ErrPlaintextPutDisabled == <<"ErrPlaintextPutDisabled">>
ErrConfigWrite == <<"ErrConfigWrite">>          \* SetCredentialsStore failed
\* fmt.Errorf("failed to set credsStore: %w", err)
WrapSetCredsStore(err) == <<"failed to set credsStore">> \o err

VARIABLES
    \* the config file behind ds.config
    credentialHelpers,   \* [Addrs -> helper suffix or ""]: credHelpers entries
    credsStore,          \* the global credsStore entry, "" when absent
    auths,               \* [Addrs -> credential]: the plaintext auths entries
    \* the native credential helpers' contents
    native,              \* [Helpers -> [Addrs -> credential]]
    \* the dynamicStore
    constructed,         \* NewStore has returned ds
    options,             \* ds.options: [AllowPlaintextPut |-> BOOLEAN]
    detectedCredsStore,  \* ds.detectedCredsStore
    onceDone,            \* ds.setCredsStoreOnce: the done flag
    onceM,               \* ds.setCredsStoreOnce: holder of its mutex, 0 when free
    \* the goroutines
    pc,                  \* [Procs -> position in the current call]
    call,                \* [Procs -> the current call's arguments and locals]
    \* history
    calls,               \* number of calls started
    putCalls,            \* a Put call has been started
    putOk,               \* the backend Put of some Put call has succeeded
    setCalls,            \* number of SetCredentialsStore invocations
    setArgs,             \* the arguments SetCredentialsStore was invoked with
    persistOutcome,      \* "none", "running", "ok" or "failed"
    wrappedReturns,      \* number of Put calls that returned the wrapped error
    authAtNew,           \* cfg.IsAuthConfigured() as NewStore saw it
    \* a store built by NewStoreWithFallbacks and the stores it is built from
    sf,                  \* the Store NewStoreWithFallbacks returned
    leaf,                \* [Leaves -> [Addrs -> credential]]: their contents
    last                 \* the last call on sf: arguments, result, stores used

cfgVars == <<credentialHelpers, credsStore, auths>>
dsVars == <<constructed, options, detectedCredsStore>>
onceVars == <<onceDone, onceM>>
histVars == <<calls, putCalls, putOk, setCalls, setArgs, persistOutcome,
              wrappedReturns, authAtNew>>
vars == <<credentialHelpers, credsStore, auths, native,
          constructed, options, detectedCredsStore, onceDone, onceM,
          pc, call, calls, putCalls, putOk, setCalls, setArgs,
          persistOutcome, wrappedReturns, authAtNew, sf, leaf, last>>
chainVars == <<sf, leaf, last>>
resolverVars == <<credentialHelpers, credsStore, auths, native, constructed,
                  options, detectedCredsStore, onceDone, onceM, pc, call,
                  calls, putCalls, putOk, setCalls, setArgs, persistOutcome,
                  wrappedReturns, authAtNew>>

\* ------------------------------------------------------- the Config view
GetCredentialHelper(serverAddress) == credentialHelpers[serverAddress]

CredentialsStore == credsStore

IsAuthConfigured ==
    \/ credsStore # ""
    \/ \E a \in Addrs : credentialHelpers[a] # ""
    \/ \E a \in Addrs : auths[a] # EmptyCredential

\* ------------------------------------------------------ the dynamicStore
NoCall == [op |-> "none", addr |-> "", cred |-> EmptyCredential,
           store |-> [kind |-> "none", helper |-> "", DisablePut |-> FALSE],
           snap |-> [helper |-> "", global |-> "", detected |-> ""],
           err |-> Nil, returnErr |-> Nil, res |-> EmptyCredential,
           backendOps |-> 0, putOkBefore |-> FALSE,
           persistBefore |-> "none", ranF |-> FALSE]

\* what getDefaultHelperSuffix() may return: "" on a host without a helper
PlatformDefaults == {"", "h2"}

\* a NewStore that detects the default whatever the config says
NewStoreDetectedAlways(platformDefault) == platformDefault

\* NewStore, lines 92-95: the default is detected only without configured
\* auth; platformDefault is what getDefaultHelperSuffix() returns
NewStoreDetected(platformDefault) ==
    IF ~IsAuthConfigured THEN platformDefault ELSE ""

\* a getHelperSuffix that looks at the global credsStore first
getHelperSuffixGlobalFirst(serverAddress) ==
    IF CredentialsStore # ""
    THEN CredentialsStore
    ELSE IF GetCredentialHelper(serverAddress) # ""
         THEN GetCredentialHelper(serverAddress)
         ELSE detectedCredsStore

\* lines 147-158
getHelperSuffix(serverAddress) ==
    IF GetCredentialHelper(serverAddress) # ""
    THEN GetCredentialHelper(serverAddress)
    ELSE IF CredentialsStore # ""
         THEN CredentialsStore
         ELSE detectedCredsStore

NewNativeStore(helper) ==
    [kind |-> "native", helper |-> helper, DisablePut |-> FALSE]

newFileStore(disablePut) ==
    [kind |-> "file", helper |-> "", DisablePut |-> disablePut]

\* a getStore that hands AllowPlaintextPut itself to the file store
getStoreAllowInverted(serverAddress) ==
    IF getHelperSuffix(serverAddress) # ""
    THEN NewNativeStore(getHelperSuffix(serverAddress))
    ELSE newFileStore(options.AllowPlaintextPut)

\* lines 161-169: the native store of the helper, else the file store
getStore(serverAddress) ==
    IF getHelperSuffix(serverAddress) # ""
    THEN NewNativeStore(getHelperSuffix(serverAddress))
    ELSE newFileStore(~options.AllowPlaintextPut)

\* what the call read from the config while selecting: the three candidates
ConfigSnapshot(serverAddress) ==
    [helper |-> GetCredentialHelper(serverAddress),
     global |-> CredentialsStore,
     detected |-> detectedCredsStore]

\* ------------------------------------------------------------ the stores
StoreContent(store) ==
    IF store.kind = "native" THEN native[store.helper] ELSE auths

\* the error a store's Put returns: fails is the store's own I/O failing
StorePutErr(store, fails) ==
    IF store.kind = "file" /\ store.DisablePut THEN ErrPlaintextPutDisabled
    ELSE IF fails THEN ErrBackend ELSE Nil

\* the stores after a write of cred (EmptyCredential: a delete) under address
StoreWrite(store, serverAddress, cred) ==
    IF store.kind = "native"
    THEN /\ native' = [native EXCEPT ![store.helper][serverAddress] = cred]
         /\ auths' = auths
    ELSE /\ auths' = [auths EXCEPT ![serverAddress] = cred]
         /\ native' = native

TypeOK ==
    /\ credentialHelpers \in [Addrs -> Helpers \cup {""}]
    /\ credsStore \in Helpers \cup {""}
    /\ auths \in [Addrs -> CredValues]
    /\ native \in [Helpers -> [Addrs -> CredValues]]
    /\ constructed \in BOOLEAN
    /\ options \in [AllowPlaintextPut : BOOLEAN]
    /\ detectedCredsStore \in Helpers \cup {""}
    /\ onceDone \in BOOLEAN
    /\ onceM \in Procs \cup {0}
    /\ pc \in [Procs -> {"idle", "backend", "once", "lock", "f", "persist",
                         "unlock", "done"}]
    /\ calls \in 0..MaxCalls
    /\ persistOutcome \in {"none", "running", "ok", "failed"}

\* --------------------------------------------------- storeWithFallbacks
\* one of the stores handed to NewStoreWithFallbacks
Leaf(i) == [kind |-> "leaf", id |-> i, stores |-> <<>>]

\* a NewStoreWithFallbacks that wraps the primary even without fallbacks
NewStoreWithFallbacksWrap(primary, fallbacks) ==
    [kind |-> "chain", id |-> 0, stores |-> <<primary>> \o fallbacks]

\* lines 197-204: without fallbacks the primary itself is returned
NewStoreWithFallbacks(primary, fallbacks) ==
    IF Len(fallbacks) = 0
    THEN primary
    ELSE [kind |-> "chain", id |-> 0, stores |-> <<primary>> \o fallbacks]

\* the error of store i
LeafErr(i) == <<"ErrBackend", ToString(i)>>

\* what each store answers to Get(serverAddress) in one call: its content,
\* and an error for the stores in failing (the content comes along with it)
Responses(serverAddress, failing) ==
    [i \in Leaves |->
        [cred |-> leaf[i][serverAddress],
         err |-> IF i \in failing THEN LeafErr(i) ELSE Nil]]

RECURSIVE StoreGet(_, _), sfGet(_, _, _, _)

\* a Get that goes on after a credential was found and returns the last one
sfGetLast(stores, k, resp, acc) ==
    IF k > Len(stores)
    THEN acc
    ELSE LET r == StoreGet(stores[k], resp)
             seen == acc.consulted \o r.consulted IN
         IF r.err # Nil
         THEN [cred |-> EmptyCredential, err |-> r.err, consulted |-> seen]
         ELSE sfGet(stores, k + 1, resp,
                    [cred |-> IF r.cred # EmptyCredential
                              THEN r.cred ELSE acc.cred,
                     err |-> Nil, consulted |-> seen])

\* a Get that takes a store's error as "nothing found" and goes on
sfGetSkipErr(stores, k, resp, acc) ==
    IF k > Len(stores)
    THEN [cred |-> EmptyCredential, err |-> Nil, consulted |-> acc.consulted]
    ELSE LET r == StoreGet(stores[k], resp)
             seen == acc.consulted \o r.consulted IN
         IF r.err = Nil /\ r.cred # EmptyCredential
         THEN [cred |-> r.cred, err |-> Nil, consulted |-> seen]
         ELSE sfGet(stores, k + 1, resp,
                    [cred |-> EmptyCredential, err |-> Nil,
                     consulted |-> seen])

\* storeWithFallbacks.Get, lines 209-220: the loop from stores[k] on; acc
\* carries the stores consulted so far
sfGet(stores, k, resp, acc) ==
    IF k > Len(stores)
    THEN [cred |-> EmptyCredential, err |-> Nil, consulted |-> acc.consulted]
    ELSE LET r == StoreGet(stores[k], resp)
             seen == acc.consulted \o r.consulted IN
         IF r.err # Nil
         THEN [cred |-> EmptyCredential, err |-> r.err, consulted |-> seen]
         ELSE IF r.cred # EmptyCredential
              THEN [cred |-> r.cred, err |-> Nil, consulted |-> seen]
              ELSE sfGet(stores, k + 1, resp,
                         [cred |-> EmptyCredential, err |-> Nil,
                          consulted |-> seen])

\* Store.Get of any store: one of the given stores, or a storeWithFallbacks
StoreGet(s, resp) ==
    IF s.kind = "leaf"
    THEN [cred |-> resp[s.id].cred, err |-> resp[s.id].err,
          consulted |-> <<s.id>>]
    ELSE sfGet(s.stores, 1, resp,
               [cred |-> EmptyCredential, err |-> Nil, consulted |-> <<>>])

RECURSIVE PrimaryLeaf(_)
\* a Put and Delete that go to the last of sf.stores
PrimaryLeafLast(s) ==
    IF s.kind = "leaf" THEN s.id ELSE PrimaryLeaf(s.stores[Len(s.stores)])

\* a Put and Delete that go to the second of sf.stores
PrimaryLeafSecond(s) ==
    IF s.kind = "leaf" THEN s.id ELSE PrimaryLeaf(s.stores[2])

\* storeWithFallbacks.Put and Delete, lines 224-232: sf.stores[0] takes the
\* call, itself a storeWithFallbacks or one of the given stores
PrimaryLeaf(s) ==
    IF s.kind = "leaf" THEN s.id ELSE PrimaryLeaf(s.stores[1])

NoChainCall == [op |-> "none", addr |-> "", cred |-> EmptyCredential,
                resp |-> [i \in Leaves |->
                            [cred |-> EmptyCredential, err |-> Nil]],
                res |-> EmptyCredential, err |-> Nil,
                consulted |-> <<>>, written |-> {}]

\* ------------------------------------------------------------------ Init
\* the dynamicStore is not built yet and nothing is in the native stores
ResolverFresh ==
    /\ native = [h \in Helpers |-> [a \in Addrs |-> EmptyCredential]]
    /\ constructed = FALSE
    /\ options = [AllowPlaintextPut |-> FALSE]
    /\ detectedCredsStore = ""
    /\ onceDone = FALSE
    /\ onceM = 0
    /\ pc = [t \in Procs |-> "idle"]
    /\ call = [t \in Procs |-> NoCall]
    /\ calls = 0
    /\ putCalls = FALSE
    /\ putOk = FALSE
    /\ setCalls = 0
    /\ setArgs = {}
    /\ persistOutcome = "none"
    /\ wrappedReturns = 0
    /\ authAtNew = FALSE

\* Before NewStore: a config file with or without a helper h1 for a1, a
\* global store h2 and a plaintext entry for a1; no stored native credentials.
Init ==
    /\ credentialHelpers \in
          {[a \in Addrs |-> ""],
           [a \in Addrs |-> IF a = "a1" THEN "h1" ELSE ""]}
    /\ credsStore \in {"", "h2"}
    /\ auths \in {[a \in Addrs |-> EmptyCredential],
                 [a \in Addrs |-> IF a = "a1" THEN "X" ELSE EmptyCredential]}
    /\ ResolverFresh
    /\ sf = Leaf(1)
    /\ leaf = [i \in Leaves |-> [a \in Addrs |-> EmptyCredential]]
    /\ last = NoChainCall

\* --------------------------------------------------------------- actions
\* a NewStore that writes the detected default to the config right away
NewStorePersistEager(opts, platformDefault) ==
    /\ ~constructed
    /\ constructed' = TRUE
    /\ options' = opts
    /\ detectedCredsStore' = NewStoreDetected(platformDefault)
    /\ authAtNew' = IsAuthConfigured
    /\ IF NewStoreDetected(platformDefault) # ""
       THEN /\ credsStore' = NewStoreDetected(platformDefault)
            /\ setCalls' = setCalls + 1
            /\ setArgs' = setArgs \cup {NewStoreDetected(platformDefault)}
            /\ persistOutcome' = "ok"
       ELSE UNCHANGED <<credsStore, setCalls, setArgs, persistOutcome>>
    /\ UNCHANGED <<credentialHelpers, auths, native, onceVars, pc,
                   call, calls, putCalls, putOk, wrappedReturns>>
    /\ UNCHANGED chainVars

\* NewStore(configPath, opts): ds is built, the default detected at most once
NewStore(opts, platformDefault) ==
    /\ ~constructed
    /\ constructed' = TRUE
    /\ options' = opts
    /\ detectedCredsStore' = NewStoreDetected(platformDefault)
    /\ authAtNew' = IsAuthConfigured
    /\ UNCHANGED <<cfgVars, native, onceVars, pc,
                   call, calls, putCalls, putOk, setCalls, setArgs,
                   persistOutcome, wrappedReturns>>
    /\ UNCHANGED chainVars

\* A goroutine enters Get, Put or Delete: ds.getStore(serverAddress) runs
StartCall(t, op, serverAddress, cred) ==
    /\ constructed
    /\ pc[t] = "idle"
    /\ calls < MaxCalls
    /\ call' = [call EXCEPT ![t] =
                   [NoCall EXCEPT !.op = op, !.addr = serverAddress,
                                  !.cred = cred,
                                  !.store = getStore(serverAddress),
                                  !.snap = ConfigSnapshot(serverAddress)]]
    /\ pc' = [pc EXCEPT ![t] = "backend"]
    /\ calls' = calls + 1
    /\ putCalls' = (putCalls \/ op = "Put")
    /\ UNCHANGED <<cfgVars, native, dsVars, onceVars, putOk,
                   setCalls, setArgs, persistOutcome, wrappedReturns,
                   authAtNew>>
    /\ UNCHANGED chainVars

\* ds.getStore(serverAddress).Get: the credential and error, verbatim
BackendGet(t) ==
    /\ pc[t] = "backend"
    /\ call[t].op = "Get"
    /\ \E fails \in BOOLEAN :
          call' = [call EXCEPT
                      ![t].res = IF fails THEN EmptyCredential
                                 ELSE StoreContent(call[t].store)[call[t].addr],
                      ![t].err = IF fails THEN ErrBackend ELSE Nil,
                      ![t].returnErr = IF fails THEN ErrBackend ELSE Nil,
                      ![t].persistBefore = persistOutcome,
                         ![t].backendOps = call[t].backendOps + 1]
    /\ pc' = [pc EXCEPT ![t] = "done"]
    /\ UNCHANGED <<cfgVars, native, dsVars, onceVars,
                   histVars>>
    /\ UNCHANGED chainVars

\* a Delete that deletes the address in the file store and every native store
BackendDeleteFanOut(t) ==
    /\ pc[t] = "backend"
    /\ call[t].op = "Delete"
    /\ \E fails \in BOOLEAN :
          /\ call' = [call EXCEPT
                         ![t].err = IF fails THEN ErrBackend ELSE Nil,
                         ![t].returnErr = IF fails THEN ErrBackend ELSE Nil,
                         ![t].backendOps = call[t].backendOps + 1]
          /\ IF fails
             THEN UNCHANGED <<native, auths>>
             ELSE /\ auths' = [auths EXCEPT ![call[t].addr] = EmptyCredential]
                  /\ native' = [h \in Helpers |->
                                  [native[h] EXCEPT
                                      ![call[t].addr] = EmptyCredential]]
    /\ pc' = [pc EXCEPT ![t] = "done"]
    /\ UNCHANGED <<credentialHelpers, credsStore, dsVars,
                   onceVars, histVars>>
    /\ UNCHANGED chainVars

\* a Delete that goes on to setCredsStoreOnce.Do as Put does
BackendDeleteThenOnce(t) ==
    /\ pc[t] = "backend"
    /\ call[t].op = "Delete"
    /\ \E fails \in BOOLEAN :
          /\ call' = [call EXCEPT
                         ![t].err = IF fails THEN ErrBackend ELSE Nil,
                         ![t].returnErr = IF fails THEN ErrBackend ELSE Nil,
                         ![t].backendOps = call[t].backendOps + 1]
          /\ IF fails
             THEN /\ UNCHANGED <<native, auths>>
                  /\ pc' = [pc EXCEPT ![t] = "done"]
             ELSE /\ StoreWrite(call[t].store, call[t].addr, EmptyCredential)
                  /\ pc' = [pc EXCEPT ![t] = "once"]
    /\ UNCHANGED <<credentialHelpers, credsStore, dsVars,
                   onceVars, histVars>>
    /\ UNCHANGED chainVars

\* ds.getStore(serverAddress).Delete: the error, verbatim
BackendDelete(t) ==
    /\ pc[t] = "backend"
    /\ call[t].op = "Delete"
    /\ \E fails \in BOOLEAN :
          /\ call' = [call EXCEPT
                         ![t].err = IF fails THEN ErrBackend ELSE Nil,
                         ![t].returnErr = IF fails THEN ErrBackend ELSE Nil,
                         ![t].backendOps = call[t].backendOps + 1]
          /\ IF fails
             THEN UNCHANGED <<native, auths>>
             ELSE StoreWrite(call[t].store, call[t].addr, EmptyCredential)
    /\ pc' = [pc EXCEPT ![t] = "done"]
    /\ UNCHANGED <<credentialHelpers, credsStore, dsVars,
                   onceVars, histVars>>
    /\ UNCHANGED chainVars

\* a Put that goes on to setCredsStoreOnce.Do after a failed backend Put
BackendPutIgnoreErr(t) ==
    /\ pc[t] = "backend"
    /\ call[t].op = "Put"
    /\ \E fails \in BOOLEAN :
          LET err == StorePutErr(call[t].store, fails) IN
          /\ call' = [call EXCEPT
                         ![t].err = err,
                         ![t].returnErr = err,
                         ![t].putOkBefore = putOk,
                         ![t].backendOps = call[t].backendOps + 1]
          /\ IF err # Nil
             THEN UNCHANGED <<native, auths, putOk>>
             ELSE /\ StoreWrite(call[t].store, call[t].addr, call[t].cred)
                  /\ putOk' = TRUE
          /\ pc' = [pc EXCEPT ![t] = "once"]
    /\ UNCHANGED <<credentialHelpers, credsStore, dsVars,
                   onceVars, calls, putCalls, setCalls, setArgs,
                   persistOutcome, wrappedReturns, authAtNew>>
    /\ UNCHANGED chainVars

\* Put, lines 126-128: the backend Put; its error ends the call
BackendPut(t) ==
    /\ pc[t] = "backend"
    /\ call[t].op = "Put"
    /\ \E fails \in BOOLEAN :
          LET err == StorePutErr(call[t].store, fails) IN
          /\ call' = [call EXCEPT
                         ![t].err = err,
                         ![t].returnErr = err,
                         ![t].putOkBefore = putOk,
                         ![t].backendOps = call[t].backendOps + 1]
          /\ IF err # Nil
             THEN /\ UNCHANGED <<native, auths, putOk>>
                  /\ pc' = [pc EXCEPT ![t] = "done"]
             ELSE /\ StoreWrite(call[t].store, call[t].addr, call[t].cred)
                  /\ putOk' = TRUE
                  /\ pc' = [pc EXCEPT ![t] = "once"]
    /\ UNCHANGED <<credentialHelpers, credsStore, dsVars,
                   onceVars, calls, putCalls, setCalls, setArgs,
                   persistOutcome, wrappedReturns, authAtNew>>
    /\ UNCHANGED chainVars

\* a Do whose callers all get the error of the one persist attempt
OnceFastSharedErr(t) ==
    /\ pc[t] = "once"
    /\ pc' = [pc EXCEPT ![t] = IF onceDone THEN "done" ELSE "lock"]
    /\ IF onceDone /\ persistOutcome = "failed"
       THEN /\ call' = [call EXCEPT
                           ![t].returnErr = WrapSetCredsStore(ErrConfigWrite)]
            /\ wrappedReturns' = wrappedReturns + 1
       ELSE UNCHANGED <<call, wrappedReturns>>
    /\ UNCHANGED <<cfgVars, native, dsVars, onceVars, calls, putCalls, putOk,
                   setCalls, setArgs, persistOutcome, authAtNew>>
    /\ UNCHANGED chainVars

\* setCredsStoreOnce.Do, fast path: a finished Once returns at once, and Put
\* returns its returnErr, line 137
OnceFast(t) ==
    /\ pc[t] = "once"
    /\ pc' = [pc EXCEPT ![t] = IF onceDone THEN "done" ELSE "lock"]
    /\ wrappedReturns' = IF onceDone /\ call[t].returnErr # Nil
                         THEN wrappedReturns + 1 ELSE wrappedReturns
    /\ UNCHANGED <<cfgVars, native, dsVars, onceVars, call, calls, putCalls,
                   putOk, setCalls, setArgs, persistOutcome, authAtNew>>
    /\ UNCHANGED chainVars

\* a Do that does not look at done again once it holds the mutex
OnceLockNoRecheck(t) ==
    /\ pc[t] = "lock"
    /\ onceM = 0
    /\ onceM' = t
    /\ pc' = [pc EXCEPT ![t] = "f"]
    /\ UNCHANGED <<cfgVars, native, dsVars, onceDone, call,
                   histVars>>
    /\ UNCHANGED chainVars

\* setCredsStoreOnce.Do, slow path: wait for the mutex, look at done again
OnceLock(t) ==
    /\ pc[t] = "lock"
    /\ onceM = 0
    /\ onceM' = t
    /\ pc' = [pc EXCEPT ![t] = IF onceDone THEN "unlock" ELSE "f"]
    /\ UNCHANGED <<cfgVars, native, dsVars, onceDone, call,
                   histVars>>
    /\ UNCHANGED chainVars

\* a function given to Do that invokes SetCredentialsStore whatever was
\* detected
OnceFNoCheck(t) ==
    /\ pc[t] = "f"
    /\ call' = [call EXCEPT ![t].ranF = TRUE]
    /\ setCalls' = setCalls + 1
    /\ setArgs' = setArgs \cup {detectedCredsStore}
    /\ persistOutcome' = "running"
    /\ pc' = [pc EXCEPT ![t] = "persist"]
    /\ UNCHANGED <<cfgVars, native, dsVars, onceVars, calls,
                   putCalls, putOk, wrappedReturns, authAtNew>>
    /\ UNCHANGED chainVars

\* a Do that sets done before the function has run
OnceFDoneFirst(t) ==
    /\ pc[t] = "f"
    /\ call' = [call EXCEPT ![t].ranF = TRUE]
    /\ onceDone' = TRUE
    /\ onceM' = onceM
    /\ IF detectedCredsStore # ""
       THEN /\ setCalls' = setCalls + 1
            /\ setArgs' = setArgs \cup {detectedCredsStore}
            /\ persistOutcome' = "running"
            /\ pc' = [pc EXCEPT ![t] = "persist"]
       ELSE /\ UNCHANGED <<setCalls, setArgs, persistOutcome>>
            /\ pc' = [pc EXCEPT ![t] = "unlock"]
    /\ UNCHANGED <<cfgVars, native, dsVars, calls,
                   putCalls, putOk, wrappedReturns, authAtNew>>
    /\ UNCHANGED chainVars

\* the function given to Do, lines 130-132: SetCredentialsStore is invoked
\* when a default was detected
OnceF(t) ==
    /\ pc[t] = "f"
    /\ call' = [call EXCEPT ![t].ranF = TRUE]
    /\ IF detectedCredsStore # ""
       THEN /\ setCalls' = setCalls + 1
            /\ setArgs' = setArgs \cup {detectedCredsStore}
            /\ persistOutcome' = "running"
            /\ pc' = [pc EXCEPT ![t] = "persist"]
       ELSE /\ UNCHANGED <<setCalls, setArgs, persistOutcome>>
            /\ pc' = [pc EXCEPT ![t] = "unlock"]
    /\ UNCHANGED <<cfgVars, native, dsVars, onceVars, calls,
                   putCalls, putOk, wrappedReturns, authAtNew>>
    /\ UNCHANGED chainVars

\* a SetCredentialsStore that writes a helper other than the detected one
PersistReturnWrongName(t) ==
    /\ pc[t] = "persist"
    /\ \/ /\ credsStore' = "h1"
          /\ persistOutcome' = "ok"
          /\ call' = call
       \/ /\ credsStore' \in {credsStore, "h1"}
          /\ persistOutcome' = "failed"
          /\ call' = [call EXCEPT
                         ![t].returnErr = WrapSetCredsStore(ErrConfigWrite)]
    /\ pc' = [pc EXCEPT ![t] = "unlock"]
    /\ UNCHANGED <<credentialHelpers, auths, native, dsVars,
                   onceVars, calls, putCalls, putOk, setCalls, setArgs,
                   wrappedReturns, authAtNew>>
    /\ UNCHANGED chainVars

\* a Put that deletes the credential it stored when the config write fails
PersistReturnRollback(t) ==
    /\ pc[t] = "persist"
    /\ \/ /\ credsStore' = detectedCredsStore
          /\ persistOutcome' = "ok"
          /\ call' = call
          /\ UNCHANGED <<native, auths>>
       \/ /\ credsStore' \in {credsStore, detectedCredsStore}
          /\ persistOutcome' = "failed"
          /\ call' = [call EXCEPT
                         ![t].returnErr = WrapSetCredsStore(ErrConfigWrite)]
          /\ StoreWrite(call[t].store, call[t].addr, EmptyCredential)
    /\ pc' = [pc EXCEPT ![t] = "unlock"]
    /\ UNCHANGED <<credentialHelpers, dsVars,
                   onceVars, calls, putCalls, putOk, setCalls, setArgs,
                   wrappedReturns, authAtNew>>
    /\ UNCHANGED chainVars

\* SetCredentialsStore returns, lines 132-134: a failure becomes returnErr
PersistReturn(t) ==
    /\ pc[t] = "persist"
    /\ \/ /\ credsStore' = detectedCredsStore
          /\ persistOutcome' = "ok"
          /\ call' = call
       \/ /\ credsStore' \in {credsStore, detectedCredsStore}
          /\ persistOutcome' = "failed"
          /\ call' = [call EXCEPT
                         ![t].returnErr = WrapSetCredsStore(ErrConfigWrite)]
    /\ pc' = [pc EXCEPT ![t] = "unlock"]
    /\ UNCHANGED <<credentialHelpers, auths, native, dsVars,
                   onceVars, calls, putCalls, putOk, setCalls, setArgs,
                   wrappedReturns, authAtNew>>
    /\ UNCHANGED chainVars

\* a Do that returns without releasing the mutex
OnceUnlockKeepsMutex(t) ==
    /\ pc[t] = "unlock"
    /\ onceDone' = (onceDone \/ call[t].ranF)
    /\ onceM' = onceM
    /\ pc' = [pc EXCEPT ![t] = "done"]
    /\ wrappedReturns' = IF call[t].returnErr # Nil
                         THEN wrappedReturns + 1 ELSE wrappedReturns
    /\ UNCHANGED <<cfgVars, native, dsVars, call, calls,
                   putCalls, putOk, setCalls, setArgs, persistOutcome,
                   authAtNew>>
    /\ UNCHANGED chainVars

\* a Do that never sets done
OnceUnlockNoDone(t) ==
    /\ pc[t] = "unlock"
    /\ onceDone' = onceDone
    /\ onceM' = 0
    /\ pc' = [pc EXCEPT ![t] = "done"]
    /\ wrappedReturns' = IF call[t].returnErr # Nil
                         THEN wrappedReturns + 1 ELSE wrappedReturns
    /\ UNCHANGED <<cfgVars, native, dsVars, call, calls,
                   putCalls, putOk, setCalls, setArgs, persistOutcome,
                   authAtNew>>
    /\ UNCHANGED chainVars

\* Do ends, line 136-137: done is set after the function ran, the mutex is
\* released and Put returns returnErr
OnceUnlock(t) ==
    /\ pc[t] = "unlock"
    /\ onceDone' = (onceDone \/ call[t].ranF)
    /\ onceM' = 0
    /\ pc' = [pc EXCEPT ![t] = "done"]
    /\ wrappedReturns' = IF call[t].returnErr # Nil
                         THEN wrappedReturns + 1 ELSE wrappedReturns
    /\ UNCHANGED <<cfgVars, native, dsVars, call, calls,
                   putCalls, putOk, setCalls, setArgs, persistOutcome,
                   authAtNew>>
    /\ UNCHANGED chainVars

\* the caller takes the result; the goroutine is free for another call
Return(t) ==
    /\ pc[t] = "done"
    /\ pc' = [pc EXCEPT ![t] = "idle"]
    /\ call' = [call EXCEPT ![t] = NoCall]
    /\ UNCHANGED <<cfgVars, native, dsVars, onceVars,
                   histVars>>
    /\ UNCHANGED chainVars

Next ==
    \/ \E opts \in [AllowPlaintextPut : BOOLEAN], d \in PlatformDefaults :
          NewStore(opts, d)
    \/ \E t \in Procs, a \in Addrs :
          \/ StartCall(t, "Get", a, EmptyCredential)
          \/ StartCall(t, "Delete", a, EmptyCredential)
          \/ \E c \in Creds : StartCall(t, "Put", a, c)
    \/ \E t \in Procs : BackendGet(t)
    \/ \E t \in Procs : BackendDelete(t)
    \/ \E t \in Procs : BackendPut(t)
    \/ \E t \in Procs : OnceFast(t)
    \/ \E t \in Procs : OnceLock(t)
    \/ \E t \in Procs : OnceF(t)
    \/ \E t \in Procs : PersistReturn(t)
    \/ \E t \in Procs : OnceUnlock(t)
    \/ \E t \in Procs : Return(t)

Spec == Init /\ [][Next]_vars

\* every backend call and SetCredentialsStore return, a goroutine that can
\* take a step takes it, and a goroutine waiting for the mutex of the Once
\* gets it when it is released again and again (sync.Mutex does not starve)
Fairness ==
    \A t \in Procs :
       /\ WF_vars(BackendGet(t))
       /\ WF_vars(BackendDelete(t))
       /\ WF_vars(BackendPut(t))
       /\ WF_vars(OnceFast(t))
       /\ SF_vars(OnceLock(t))
       /\ WF_vars(OnceF(t))
       /\ WF_vars(PersistReturn(t))
       /\ WF_vars(OnceUnlock(t))

SpecFair == Init /\ [][Next]_vars /\ Fairness

\* ------------------------------------------- storeWithFallbacks: actions
ChainCredValues == ChainCreds \cup {EmptyCredential}

\* NewStoreWithFallbacks(1, 2, ..., n)
FlatChain(n) ==
    NewStoreWithFallbacks(Leaf(1), [k \in 1..(n - 1) |-> Leaf(k + 1)])

\* NewStoreWithFallbacks(NewStoreWithFallbacks(1, 2), 3, ..., n)
NestedChain(n) ==
    NewStoreWithFallbacks(FlatChain(2), [k \in 1..(n - 2) |-> Leaf(k + 2)])

\* the stores the callers build
ChainShapes ==
    {FlatChain(n) : n \in 1..NumLeaves}
       \cup {NestedChain(n) : n \in 3..NumLeaves}

\* any store built from stores holding any credentials for a1 and none yet
\* for the other addresses; no dynamicStore is in use
InitChain ==
    /\ credentialHelpers = [a \in Addrs |-> ""]
    /\ credsStore = ""
    /\ auths = [a \in Addrs |-> EmptyCredential]
    /\ ResolverFresh
    /\ sf \in ChainShapes
    /\ leaf \in [Leaves -> [Addrs -> ChainCredValues]]
    /\ \A i \in Leaves, a \in Addrs \ {"a1"} : leaf[i][a] = EmptyCredential
    /\ last = NoChainCall

\* sf.Get(ctx, serverAddress), while the stores in failing return errors
ChainGet(serverAddress, failing) ==
    /\ LET resp == Responses(serverAddress, failing)
           r == StoreGet(sf, resp) IN
       last' = [NoChainCall EXCEPT !.op = "Get", !.addr = serverAddress,
                                   !.resp = resp, !.res = r.cred,
                                   !.err = r.err, !.consulted = r.consulted]
    /\ UNCHANGED <<sf, leaf, resolverVars>>

\* sf.Put(ctx, serverAddress, cred): the Put of the primary store
ChainPut(serverAddress, cred, fails) ==
    /\ LET target == PrimaryLeaf(sf) IN
       /\ last' = [NoChainCall EXCEPT
                      !.op = "Put", !.addr = serverAddress, !.cred = cred,
                      !.err = IF fails THEN LeafErr(target) ELSE Nil,
                      !.written = {target}]
       /\ leaf' = IF fails THEN leaf
                  ELSE [leaf EXCEPT ![target][serverAddress] = cred]
    /\ UNCHANGED <<sf, resolverVars>>

\* sf.Delete(ctx, serverAddress): the Delete of the primary store
ChainDelete(serverAddress, fails) ==
    /\ LET target == PrimaryLeaf(sf) IN
       /\ last' = [NoChainCall EXCEPT
                      !.op = "Delete", !.addr = serverAddress,
                      !.err = IF fails THEN LeafErr(target) ELSE Nil,
                      !.written = {target}]
       /\ leaf' = IF fails THEN leaf
                  ELSE [leaf EXCEPT ![target][serverAddress] = EmptyCredential]
    /\ UNCHANGED <<sf, resolverVars>>

NextChain ==
    \/ \E a \in Addrs, failing \in SUBSET Leaves : ChainGet(a, failing)
    \/ \E a \in Addrs, c \in ChainCreds, fails \in BOOLEAN :
          ChainPut(a, c, fails)
    \/ \E a \in Addrs, fails \in BOOLEAN : ChainDelete(a, fails)

SpecChain == InitChain /\ [][NextChain]_vars

\* ---------------------------------------------------------------- claims
OncePhase == {"once", "lock", "f", "persist", "unlock"}
IsStepOf(t) == pc'[t] # pc[t]
PutDone(t) == pc[t] = "done" /\ call[t].op = "Put"
\* the call's backend Put succeeded and the call has returned
PutDoneOk(t) == PutDone(t) /\ call[t].err = Nil
\* the call selected its store before SetCredentialsStore had written
StartedUnpersisted(t) == call[t].snap.global = "" /\ call[t].snap.detected # ""
\* the call selected its store after SetCredentialsStore had written
StartedPersisted(t) == call[t].snap.global # "" /\ call[t].snap.detected # ""

\* C1: with a detected default, SetCredentialsStore is never invoked twice,
\* and once every Put whose backend Put succeeded is past the function given
\* to Do, it has been invoked exactly once, however many such Puts there are.
C1_ExactlyOncePersist ==
    /\ setCalls <= 1
    /\ (/\ detectedCredsStore # ""
        /\ putOk
        /\ \A t \in Procs : pc[t] \notin {"once", "lock", "f"})
       => setCalls = 1

\* two Puts that both started before the config was written have both
\* succeeded at the backend and returned
C1_Witness ==
    /\ setCalls = 1
    /\ \E t, u \in Procs :
          /\ t # u
          /\ PutDoneOk(t) /\ StartedUnpersisted(t)
          /\ PutDoneOk(u) /\ StartedUnpersisted(u)

\* the store the claim names for what the call read from the config
PriorityStore(snap) ==
    IF snap.helper # "" THEN [kind |-> "native", helper |-> snap.helper]
    ELSE IF snap.global # "" THEN [kind |-> "native", helper |-> snap.global]
    ELSE IF snap.detected # ""
         THEN [kind |-> "native", helper |-> snap.detected]
         ELSE [kind |-> "file", helper |-> ""]

\* C2: every call runs on the native store of the address's own helper if
\* there is one, else of the global credsStore, else of the detected default,
\* else on the plaintext file store.
C2_SelectionPriority ==
    \A t \in Procs :
       pc[t] # "idle" =>
          /\ call[t].store.kind = PriorityStore(call[t].snap).kind
          /\ call[t].store.helper = PriorityStore(call[t].snap).helper
          /\ call[t].snap.helper # "" =>
                call[t].store = NewNativeStore(call[t].snap.helper)

\* a call for an address with its own helper h1 while the global is h2
C2_Witness ==
    \E t \in Procs :
       /\ pc[t] = "done"
       /\ call[t].snap.helper = "h1"
       /\ call[t].snap.global = "h2"
       /\ call[t].store = NewNativeStore("h1")

\* C3: once SetCredentialsStore has succeeded, no step invokes it again.
C3_PersistedOnce ==
    [][persistOutcome = "ok" =>
          /\ setCalls' = setCalls
          /\ persistOutcome' = "ok"]_vars

\* a Put that started after the successful persist has gone through Do
C3_Witness ==
    /\ persistOutcome = "ok"
    /\ setCalls = 1
    /\ \E t \in Procs : PutDoneOk(t) /\ StartedPersisted(t)

\* the step in which t's backend Put fails
FailedPutStep(t) ==
    /\ pc[t] = "backend"
    /\ call[t].op = "Put"
    /\ IsStepOf(t)
    /\ call'[t].err # Nil

\* C4: a Put whose backend Put fails returns that error and touches neither
\* the Once nor the config; as long as no backend Put has succeeded the
\* default stays unpersisted and the Once unfired, and the first Put whose
\* backend Put succeeds does not return before the persist attempt was made.
C4_FailedPutLeavesOnce ==
    /\ [][\A t \in Procs :
             FailedPutStep(t) =>
                /\ pc'[t] = "done"
                /\ call'[t].returnErr = call'[t].err
                /\ call'[t].returnErr \in {ErrBackend, ErrPlaintextPutDisabled}
                /\ UNCHANGED <<onceDone, onceM, setCalls, setArgs, credsStore,
                               persistOutcome, native, auths>>]_vars
    /\ [](~putOk => /\ ~onceDone
                    /\ onceM = 0
                    /\ setCalls = 0
                    /\ persistOutcome = "none")
    /\ [](\A t \in Procs :
             (/\ PutDoneOk(t)
              /\ ~call[t].putOkBefore
              /\ detectedCredsStore # "")
             => /\ setCalls = 1
                /\ persistOutcome \in {"ok", "failed"})

\* a Put failed at the backend before any had succeeded, and the Put that
\* succeeded next has made the persist attempt and returned
C4_Witness ==
    \E t, u \in Procs :
       /\ PutDone(t) /\ call[t].err = ErrBackend /\ ~call[t].putOkBefore
       /\ call[t].returnErr = ErrBackend
       /\ call[t].snap.detected # ""
       /\ PutDoneOk(u) /\ ~call[u].putOkBefore /\ call[u].ranF
       /\ setCalls = 1

\* C5: the wrapped error of a failed persist is returned by one Put only,
\* the one that ran the function given to Do; every other Put whose backend
\* Put succeeded returns nil, and the config write is not attempted again.
C5_PersistFailureToTrigger ==
    /\ wrappedReturns <= 1
    /\ wrappedReturns = 1 => persistOutcome = "failed"
    /\ persistOutcome = "failed" => setCalls = 1
    /\ (/\ persistOutcome = "failed"
        /\ \A t \in Procs : pc[t] # "unlock")
       => wrappedReturns = 1
    /\ \A t \in Procs :
          PutDoneOk(t) =>
             \/ call[t].returnErr = Nil
             \/ /\ call[t].returnErr = WrapSetCredsStore(ErrConfigWrite)
                /\ call[t].ranF
                /\ persistOutcome = "failed"
    /\ \A t \in Procs :
          (PutDoneOk(t) /\ ~call[t].ranF) => call[t].returnErr = Nil

\* the persist failed: its Put returned the wrapped error and another Put
\* that went through Do returned nil
C5_Witness ==
    /\ persistOutcome = "failed"
    /\ \E t, u \in Procs :
          /\ PutDoneOk(t)
          /\ call[t].returnErr = WrapSetCredsStore(ErrConfigWrite)
          /\ PutDoneOk(u)
          /\ call[u].returnErr = Nil

\* t's Put returned the wrapped error of the failed config write
PutDonePersistFailed(t) ==
    PutDone(t) /\ call[t].returnErr = WrapSetCredsStore(ErrConfigWrite)

\* the step in which u's backend Get for t's address succeeds
GetStepAfter(t, u) ==
    /\ pc[u] = "backend"
    /\ call[u].op = "Get"
    /\ call[u].addr = call[t].addr
    /\ pc'[u] = "done"
    /\ call'[u].err = Nil

\* C6: no step of a Put after its backend Put changes a store, a Put that
\* returned the wrapped error made one backend call, and while the stored
\* credential is not overwritten or deleted by another call, a Get for the
\* same address returns it.
C6_NoRollback ==
    /\ [][\A t \in Procs :
             (pc[t] \in OncePhase /\ IsStepOf(t)) =>
                UNCHANGED <<native, auths>>]_vars
    /\ [](\A t \in Procs :
             PutDonePersistFailed(t) =>
                /\ call[t].backendOps = 1
                /\ call[t].err = Nil)
    /\ [][\A t, u \in Procs :
             (/\ PutDonePersistFailed(t)
              /\ StoreContent(call[t].store)[call[t].addr] = call[t].cred
              /\ GetStepAfter(t, u))
             => call'[u].res = call[t].cred]_vars

\* a Put returned the wrapped error and a Get for its address that started
\* after the failed write has returned the credential
C6_Witness ==
    \E t, u \in Procs :
       /\ PutDonePersistFailed(t)
       /\ pc[u] = "done"
       /\ call[u].op = "Get"
       /\ call[u].addr = call[t].addr
       /\ call[u].err = Nil
       /\ call[u].persistBefore = "failed"
       /\ call[u].res = call[t].cred
       /\ call[u].res # EmptyCredential

\* C7: while the function given to Do runs, no Put whose backend Put
\* succeeded has returned.
C7_PutsBlockDuringPersist ==
    (\E u \in Procs : pc[u] \in {"f", "persist"}) =>
       \A t \in Procs : ~PutDoneOk(t)

\* SetCredentialsStore is running and another Put waits for the mutex
C7_Witness ==
    \E t, u \in Procs :
       /\ pc[u] = "persist"
       /\ pc[t] = "lock"
       /\ call[t].op = "Put"
       /\ call[t].err = Nil

\* C8: Get and Delete calls never enter Do, and while no Put has been
\* started the config write is not invoked and the Once is unfired.
C8_GetDeleteNeverPersist ==
    /\ \A t \in Procs :
          call[t].op \in {"Get", "Delete"} =>
             /\ pc[t] \in {"backend", "done"}
             /\ ~call[t].ranF
    /\ ~putCalls => /\ setCalls = 0
                    /\ setArgs = {}
                    /\ ~onceDone
                    /\ onceM = 0
                    /\ persistOutcome = "none"

\* with a detected default, a Get and a Delete have returned without error
\* and nothing was persisted
C8_Witness ==
    /\ ~putCalls
    /\ detectedCredsStore # ""
    /\ setCalls = 0
    /\ \E t, u \in Procs :
          /\ pc[t] = "done" /\ call[t].op = "Get" /\ call[t].err = Nil
          /\ pc[u] = "done" /\ call[u].op = "Delete" /\ call[u].err = Nil

\* the selection step of section 4.1 that the call's store came from
SelectionStep(snap) ==
    IF snap.helper # "" THEN 1
    ELSE IF snap.global # "" THEN 2
    ELSE IF snap.detected # "" THEN 3 ELSE 4

\* C9: when IsAuthConfigured() was true in NewStore, detectedCredsStore is
\* empty in every state and no call selects by the detected default.
C9_NoDetectionWhenConfigured ==
    authAtNew =>
       /\ detectedCredsStore = ""
       /\ \A t \in Procs :
             pc[t] # "idle" =>
                /\ SelectionStep(call[t].snap) # 3
                /\ call[t].snap.detected = ""

\* auth was configured (a plaintext entry only) and a call found neither a
\* helper nor a global store: it ran on the file store
C9_Witness ==
    /\ authAtNew
    /\ \E t \in Procs :
          /\ pc[t] = "done"
          /\ SelectionStep(call[t].snap) = 4
          /\ call[t].store.kind = "file"

RECURSIVE LeafOrder(_)
\* the given stores in the order sf holds them, a nested chain in place
LeafOrder(s) ==
    IF s.kind = "leaf" THEN <<s.id>>
    ELSE IF Len(s.stores) = 1 THEN LeafOrder(s.stores[1])
    ELSE LeafOrder(s.stores[1])
            \o LeafOrder([s EXCEPT !.stores = Tail(s.stores)])

\* a store answers when it returns an error or a non-empty credential
Answers(r) == r.err # Nil \/ r.cred # EmptyCredential

\* the position in order of the first store that answers, 0 when none does
FirstAnswer(resp, order) ==
    IF \E k \in 1..Len(order) : Answers(resp[order[k]])
    THEN CHOOSE k \in 1..Len(order) :
            /\ Answers(resp[order[k]])
            /\ \A j \in 1..(k - 1) : ~Answers(resp[order[j]])
    ELSE 0

\* C10: Get consults the stores in chain order, each once, up to the first
\* that answers and none after it; when that store returns a non-empty
\* credential without error Get returns it, and when every store returns
\* EmptyCredential without error Get returns EmptyCredential and no error.
C10_FallbackGetOrder ==
    last.op = "Get" =>
       LET order == LeafOrder(sf)
           k == FirstAnswer(last.resp, order) IN
       /\ last.consulted =
             SubSeq(order, 1, IF k = 0 THEN Len(order) ELSE k)
       /\ (k # 0 /\ last.resp[order[k]].err = Nil) =>
             /\ last.res = last.resp[order[k]].cred
             /\ last.err = Nil
       /\ k = 0 => /\ last.res = EmptyCredential
                   /\ last.err = Nil

\* stores [1 (empty), 2 (X), 3 (Y)]: Get returned X and store 3 was not asked
C10_Witness ==
    /\ sf = FlatChain(3)
    /\ last.op = "Get"
    /\ last.resp[1] = [cred |-> EmptyCredential, err |-> Nil]
    /\ last.resp[2] = [cred |-> "X", err |-> Nil]
    /\ last.resp[3] = [cred |-> "Y", err |-> Nil]
    /\ last.res = "X"
    /\ last.err = Nil
    /\ last.consulted = <<1, 2>>

\* C11: when the first store that answers returns an error, Get returns
\* EmptyCredential and that error, whatever credential came with it, and
\* asks no store after it.
C11_FallbackGetErrorStops ==
    (last.op = "Get" /\ sf.kind = "chain") =>
       LET order == LeafOrder(sf)
           k == FirstAnswer(last.resp, order) IN
       (k # 0 /\ last.resp[order[k]].err # Nil) =>
          /\ last.res = EmptyCredential
          /\ last.err = last.resp[order[k]].err
          /\ last.consulted = SubSeq(order, 1, k)
          /\ \A j \in (k + 1)..Len(order) :
                \A i \in 1..Len(last.consulted) :
                   last.consulted[i] # order[j]

\* store 1 has nothing, store 2 returns an error along with a credential,
\* store 3 holds a credential: Get returned store 2's error and nothing else
C11_Witness ==
    /\ sf = FlatChain(3)
    /\ last.op = "Get"
    /\ last.resp[1] = [cred |-> EmptyCredential, err |-> Nil]
    /\ last.resp[2] = [cred |-> "Y", err |-> LeafErr(2)]
    /\ last.resp[3] = [cred |-> "X", err |-> Nil]
    /\ last.res = EmptyCredential
    /\ last.err = LeafErr(2)
    /\ last.consulted = <<1, 2>>

\* the first of the given stores, the one NewStoreWithFallbacks got as primary
PrimaryOf(s) == LeafOrder(s)[1]

\* C12: Put and Delete call the primary store only and return its error; no
\* step changes the content of a fallback store, and Get changes no store.
C12_WritesGoToPrimary ==
    [][/\ \A i \in Leaves \ {PrimaryOf(sf)} : leaf'[i] = leaf[i]
       /\ last'.op = "Get" => leaf' = leaf
       /\ last'.op \in {"Put", "Delete"} =>
             /\ last'.written = {PrimaryOf(sf)}
             /\ last'.consulted = <<>>
             /\ last'.err \in {Nil, LeafErr(PrimaryOf(sf))}
             /\ last'.err # Nil => leaf' = leaf
             /\ last'.err = Nil =>
                   leaf'[PrimaryOf(sf)][last'.addr] = last'.cred]_vars

\* a Put on a chain of three stores stored X in store 1 while the fallbacks
\* keep the other credential
C12_Witness ==
    /\ Len(LeafOrder(sf)) = 3
    /\ last.op = "Put"
    /\ last.err = Nil
    /\ last.cred = "X"
    /\ last.written = {1}
    /\ leaf[1][last.addr] = "X"
    /\ leaf[2]["a1"] = "Y"
    /\ leaf[3]["a1"] = "Y"

\* C13: NewStoreWithFallbacks(primary) is the primary: Get returns the
\* primary's credential and error as they are, Put and Delete call it alone.
C13_ZeroFallbackIsPrimary ==
    /\ NewStoreWithFallbacks(Leaf(1), <<>>) = Leaf(1)
    /\ sf = FlatChain(1) =>
          /\ sf.kind = "leaf"
          /\ last.op = "Get" =>
                /\ last.res = last.resp[1].cred
                /\ last.err = last.resp[1].err
                /\ last.consulted = <<1>>
          /\ last.op \in {"Put", "Delete"} =>
                /\ last.written = {1}
                /\ last.err \in {Nil, LeafErr(1)}

\* the store built without fallbacks returned the primary's error together
\* with the credential the primary returned
C13_Witness ==
    /\ sf = FlatChain(1)
    /\ last.op = "Get"
    /\ last.err = LeafErr(1)
    /\ last.res = "X"

\* what a call recorded in last gives on the store s: the credential, error
\* and stores asked of a Get, the store written and the error of a Put or
\* Delete
ChainOutcome(s) ==
    IF last.op = "Get"
    THEN LET r == StoreGet(s, last.resp) IN
         [res |-> r.cred, err |-> r.err, consulted |-> r.consulted,
          written |-> {}]
    ELSE [res |-> EmptyCredential,
          err |-> IF last.err = Nil THEN Nil ELSE LeafErr(PrimaryLeaf(s)),
          consulted |-> <<>>,
          written |-> {PrimaryLeaf(s)}]

\* C20: a chain whose primary is itself a chain behaves as the flat chain of
\* the same stores: same credential and error, same stores asked in the same
\* order, same store written.
C20_NestedChainFlattens ==
    \A n \in 3..NumLeaves :
       (sf = NestedChain(n) /\ last.op # "none") =>
          /\ LeafOrder(sf) = LeafOrder(FlatChain(n))
          /\ [res |-> last.res, err |-> last.err,
              consulted |-> last.consulted, written |-> last.written]
                = ChainOutcome(FlatChain(n))

\* on the nested chain a Get went through the inner chain to the outer
\* fallback and found the credential there, and a Put wrote store 1
C20_Witness ==
    /\ sf = NestedChain(3)
    /\ \/ /\ last.op = "Get"
          /\ last.consulted = <<1, 2, 3>>
          /\ last.res = "X"
          /\ last.err = Nil
       \/ /\ last.op = "Put"
          /\ last.written = {1}
          /\ last.err = Nil
          /\ leaf[1][last.addr] = last.cred
          /\ leaf[2][last.addr] # last.cred

\* the call's backend operation runs in this step
BackendStep(t) == pc[t] = "backend" /\ pc'[t] # "backend"

\* C14: a Put that found no helper at all runs on the file store with
\* DisablePut = ~AllowPlaintextPut. When plaintext Put is not allowed it
\* returns ErrPlaintextPutDisabled, stores nothing, and neither reaches
\* setCredsStoreOnce nor SetCredentialsStore; when it is allowed and the
\* store does not fail, the credential is in the file store.
C14_PlaintextPutDisabled ==
    [][\A t \in Procs :
          (/\ BackendStep(t)
           /\ call[t].op = "Put"
           /\ SelectionStep(call[t].snap) = 4) =>
             /\ call[t].store = newFileStore(~options.AllowPlaintextPut)
             /\ ~options.AllowPlaintextPut =>
                   /\ pc'[t] = "done"
                   /\ call'[t].returnErr = ErrPlaintextPutDisabled
                   /\ ~call'[t].ranF
                   /\ UNCHANGED <<cfgVars, native, onceVars, putOk,
                                  setCalls, setArgs, persistOutcome>>
             /\ (options.AllowPlaintextPut /\ call'[t].err = Nil) =>
                   /\ auths'[call[t].addr] = call[t].cred
                   /\ native' = native]_vars

\* no helper anywhere and plaintext Put not allowed: the Put has returned
\* ErrPlaintextPutDisabled, the file store is empty and the Once untouched
C14_Witness ==
    /\ ~options.AllowPlaintextPut
    /\ ~onceDone /\ onceM = 0
    /\ setCalls = 0
    /\ \E t \in Procs :
          /\ PutDone(t)
          /\ SelectionStep(call[t].snap) = 4
          /\ call[t].store = newFileStore(TRUE)
          /\ call[t].returnErr = ErrPlaintextPutDisabled
          /\ ~call[t].ranF
          /\ auths[call[t].addr] = EmptyCredential

\* C15: SetCredentialsStore is invoked only after a backend Put of this
\* dynamicStore has succeeded, and only by a Put whose own backend Put
\* succeeded: never in NewStore, never by Get or Delete, never while all
\* Puts so far have failed.
C15_PersistAfterSuccessfulPut ==
    /\ (setCalls > 0 \/ setArgs # {} \/ persistOutcome # "none") => putOk
    /\ putOk => (constructed /\ putCalls)
    /\ (~putOk /\ detectedCredsStore # "") => credsStore = ""
    /\ \A t \in Procs :
          pc[t] \in OncePhase =>
             /\ call[t].op = "Put"
             /\ call[t].err = Nil
             /\ call[t].backendOps = 1
             /\ putOk

\* one Put has failed at the backend and returned; the other succeeded there
\* and is now writing the config, the first write of this dynamicStore
C15_Witness ==
    /\ setCalls = 1
    /\ persistOutcome = "running"
    /\ \E t, u \in Procs :
          /\ pc[t] = "persist"
          /\ call[t].op = "Put" /\ call[t].err = Nil
          /\ ~call[t].putOkBefore
          /\ PutDone(u) /\ call[u].err = ErrBackend
          /\ call[u].returnErr = ErrBackend

\* the stores other than the one the call selected, and the selected store
\* under the other addresses, are the same before and after the step
OnlySelectedTouched(t) ==
    /\ \A h \in Helpers :
          (call[t].store.kind = "native" /\ call[t].store.helper = h)
             \/ native'[h] = native[h]
    /\ call[t].store.kind = "file" \/ auths' = auths
    /\ \A a \in Addrs \ {call[t].addr} :
          /\ auths'[a] = auths[a]
          /\ \A h \in Helpers : native'[h][a] = native[h][a]

\* C16: every call runs one backend operation, on the store selected for
\* its address, and touches no other store; Get returns the store's
\* credential and error, Delete its error, and a Put whose backend Put fails
\* that error.
C16_OneBackendPerCall ==
    [][\A t \in Procs :
          /\ BackendStep(t) =>
                /\ call[t].store = getStore(call[t].addr)
                      \/ call[t].snap # ConfigSnapshot(call[t].addr)
                /\ call[t].store.kind = PriorityStore(call[t].snap).kind
                /\ call[t].store.helper = PriorityStore(call[t].snap).helper
                /\ call[t].backendOps = 0
                /\ call'[t].backendOps = 1
                /\ OnlySelectedTouched(t)
                /\ call[t].op = "Get" =>
                      /\ auths' = auths /\ native' = native
                      /\ call'[t].returnErr = call'[t].err
                      /\ call'[t].err = Nil =>
                            call'[t].res =
                               StoreContent(call[t].store)[call[t].addr]
                      /\ pc'[t] = "done"
                /\ call[t].op = "Delete" =>
                      /\ call'[t].returnErr = call'[t].err
                      /\ pc'[t] = "done"
                /\ (call[t].op = "Put" /\ call'[t].err # Nil) =>
                      /\ call'[t].returnErr = call'[t].err
                      /\ pc'[t] = "done"
                      /\ auths' = auths /\ native' = native
          /\ ~BackendStep(t) =>
                /\ call'[t].backendOps \in {0, call[t].backendOps}
                /\ call'[t].err \in {Nil, call[t].err}
          /\ (\A u \in Procs : ~BackendStep(u)) =>
                (auths' = auths /\ native' = native)]_vars

\* a Delete on the native store h1 selected for a1 has returned and the
\* credential of a1 in the file store is still there; a Get returned the
\* error of its store
C16_Witness ==
    \E t, u \in Procs :
       /\ pc[t] = "done" /\ call[t].op = "Delete" /\ call[t].err = Nil
       /\ call[t].store = NewNativeStore("h1")
       /\ call[t].backendOps = 1
       /\ auths[call[t].addr] = "X"
       /\ pc[u] = "done" /\ call[u].op = "Get"
       /\ call[u].returnErr = ErrBackend
       /\ call[u].backendOps = 1

\* C18: with nothing detected, SetCredentialsStore is never invoked and no Put
\* returns the error of a config write; a Put whose backend Put succeeded
\* returns nil, and by then the Once is done.
C18_NoPersistWithoutDetected ==
    (constructed /\ detectedCredsStore = "") =>
       /\ setCalls = 0
       /\ setArgs = {}
       /\ persistOutcome = "none"
       /\ wrappedReturns = 0
       /\ \A t \in Procs :
             /\ pc[t] # "persist"
             /\ call[t].returnErr = call[t].err
             /\ PutDoneOk(t) => (call[t].returnErr = Nil /\ onceDone)

\* nothing was detected, the Put ran the function given to Do and returned
\* nil; SetCredentialsStore was not invoked
C18_Witness ==
    /\ constructed
    /\ detectedCredsStore = ""
    /\ onceDone
    /\ setCalls = 0
    /\ \E t \in Procs :
          /\ PutDoneOk(t)
          /\ call[t].ranF
          /\ call[t].returnErr = Nil

\* C19: with a detected default, the only credsStore ever written is the
\* detected default, so before, during and after the config write, whether
\* it succeeds or fails, every address selects the native store of the
\* detected default, and so did every call in flight.
C19_SelectionStableAcrossPersist ==
    detectedCredsStore # "" =>
       /\ setArgs \subseteq {detectedCredsStore}
       /\ credsStore \in {"", detectedCredsStore}
       /\ \A a \in Addrs :
             /\ GetCredentialHelper(a) = ""
             /\ getStore(a) = NewNativeStore(detectedCredsStore)
       /\ \A t \in Procs :
             pc[t] # "idle" =>
                call[t].store = NewNativeStore(detectedCredsStore)

\* a Get selected its store before the config was written and read the store
\* after the write; the config now names the detected default
C19_Witness ==
    /\ detectedCredsStore # ""
    /\ credsStore = detectedCredsStore
    /\ \E t \in Procs :
          /\ pc[t] = "done" /\ call[t].op = "Get"
          /\ StartedUnpersisted(t)
          /\ call[t].persistBefore \in {"ok", "failed"}
          /\ call[t].store = NewNativeStore(detectedCredsStore)

\* C17: every call that has started returns, a Put through the Once
\* included, whether SetCredentialsStore succeeds or fails.
C17_PutReturns ==
    \A t \in Procs : (pc[t] # "idle") ~> (pc[t] = "done")

\* the config write failed, the Put that made it has returned, and the Put
\* that waited for the mutex meanwhile now holds it and is about to return
C17_Witness ==
    /\ persistOutcome = "failed"
    /\ onceDone
    /\ \E t, u \in Procs :
          /\ PutDonePersistFailed(u) /\ call[u].ranF
          /\ pc[t] = "unlock" /\ onceM = t
          /\ call[t].op = "Put" /\ ~call[t].ranF

====
